---------------------------- MODULE Spec2Model ----------------------------
(***************************************************************************)
(* A model of bertopic/plotting/_topics_per_class.py:                      *)
(* visualize_topics_per_class, called repeatedly by one caller that keeps  *)
(* its topic model and its topics_per_class table between the calls.       *)
(*                                                                         *)
(* Conventions of the model                                                *)
(*  - A DataFrame is a sequence of rows; a row is a record whose fields    *)
(*    are the columns.  Adding a column adds a field to every row.         *)
(*  - The function's local variables live in the record `locals`; a name   *)
(*    that is not in DOMAIN locals is an unbound Python local, and reading *)
(*    it raises UnboundLocalError.  The loop variable `_` is locals.idx.   *)
(*  - Numeric columns are pandas numeric columns (numpy scalars), so a     *)
(*    division by zero yields inf or nan with a warning and does not raise.*)
(*  - A plotted value is a record [kind, n, d]: "int" is the integer n,    *)
(*    "div" is the float n / d (inf or nan when d = 0), "l2" is            *)
(*    n / sqrt(d), the entry of an L2-normalised vector.                   *)
(*  - Python's True as the value of `visible` is the string "True", the    *)
(*    other value being the string "legendonly".                           *)
(***************************************************************************)
EXTENDS Integers, Sequences, FiniteSets, TLC

VARIABLES
    topic_model,       \* the caller's fitted model (read by the function)
    topics_per_class,  \* the caller's DataFrame, passed by reference
    args,              \* the other arguments of the call in progress
    pc,                \* position of the call
    locals,            \* the bound local variables of the call
    fig,               \* the figure under construction
    outcome,           \* "none", "figure" or the name of the exception raised
    calls,             \* calls started so far
    tpc_before         \* topics_per_class as the caller passed it to this call

vars == <<topic_model, topics_per_class, args, pc, locals, fig, outcome,
          calls, tpc_before>>

---------------------------------------------------------------------------
(* Bounds of the model *)

\* calls the caller makes in one behaviour
MaxCalls == 2
\* longest explicit `topics` list
MaxListLen == 2
\* largest top_n_topics
MaxTopN == 2

---------------------------------------------------------------------------
(* Generic helpers *)

NoneVal == [none |-> TRUE]
Some(v) == [none |-> FALSE, v |-> v]

Range(s) == {s[k] : k \in 1..Len(s)}

RECURSIVE SeqSum(_)
SeqSum(s) == IF s = <<>> THEN 0 ELSE Head(s) + SeqSum(Tail(s))

\* Series.unique(): the distinct values in order of first appearance
RECURSIVE Unique(_)
Unique(s) ==
    IF s = <<>> THEN <<>>
    ELSE LET init == Unique(SubSeq(s, 1, Len(s) - 1))
             last == s[Len(s)]
         IN IF last \in Range(init) THEN init ELSE Append(init, last)

\* all sequences over S of length at most n
RECURSIVE SeqsUpTo(_, _)
SeqsUpTo(S, n) ==
    IF n = 0 THEN {<<>>}
    ELSE LET shorter == SeqsUpTo(S, n - 1)
         IN shorter \cup {Append(s, e) : s \in shorter, e \in S}

\* Python's sorted() on a list of integers
RECURSIVE sorted(_)
sorted(s) ==
    IF s = <<>> THEN <<>>
    ELSE LET m == CHOOSE k \in 1..Len(s) : \A j \in 1..Len(s) : s[k] <= s[j]
         IN <<s[m]>> \o sorted(SubSeq(s, 1, m - 1) \o SubSeq(s, m + 1, Len(s)))

\* lst[:n] for n >= 0
Take(s, n) == SubSeq(s, 1, IF n < Len(s) THEN n ELSE Len(s))

\* str.strip
RECURSIVE strip(_)
strip(s) ==
    IF Len(s) = 0 THEN s
    ELSE IF SubSeq(s, 1, 1) = " " THEN strip(SubSeq(s, 2, Len(s)))
    ELSE IF SubSeq(s, Len(s), Len(s)) = " " THEN strip(SubSeq(s, 1, Len(s) - 1))
    ELSE s

\* lst[i] for a Python list and a Python index (negative indexes count from the end)
PyIndex(lst, i) == IF i < 0 THEN lst[Len(lst) + i + 1] ELSE lst[i + 1]

---------------------------------------------------------------------------
(* The inputs: the caller's objects and the arguments of a call *)

colors == <<"#E69F00", "#56B4E9", "#009E73", "#F0E442", "#D55E00", "#0072B2",
            "#CC79A7">>

Row(t, c, f, w) == [Topic |-> t, Class |-> c, Frequency |-> f, Words |-> w]

\* A model with an outlier topic and no custom labels.  get_topic_freq() is
\* ordered by descending frequency.
ModelOutliers ==
    [topic_freq    |-> <<1, -1, 0, 2>>,
     topic_labels_ |-> (-1 :> "-1_the_of_and") @@ (0 :> "0_cat_dog_fish")
                       @@ (1 :> "1_photosynthesis_chlorophyll_mitochondria_cell")
                       @@ (2 :> "2_sun_moon"),
     custom_labels_ |-> NoneVal,
     outliers      |-> 1]

\* A model without outlier topic whose labels were set with set_topic_labels.
ModelCustom ==
    [topic_freq    |-> <<2, 0, 1>>,
     topic_labels_ |-> (0 :> "0_cat_dog_fish")
                       @@ (1 :> "1_photosynthesis_chlorophyll_mitochondria_cell")
                       @@ (2 :> "2_sun_moon"),
     custom_labels_ |-> Some(<<"Pets", "Biology", "Sky">>),
     outliers      |-> 0]

\* A model that found no topic at all.
ModelEmpty ==
    [topic_freq    |-> <<>>,
     topic_labels_ |-> <<>>,
     custom_labels_ |-> NoneVal,
     outliers      |-> 0]

\* One row per (topic, class).  Topic 2 occurs in no document of either class.
TableOutliers ==
    << Row(-1, "A", 1, "the, of"),
       Row(0, "A", 10, "cat, dog"), Row(0, "B", 5, "cat, fish"),
       Row(1, "A", 3, "cell"), Row(1, "B", 7, "chlorophyll"),
       Row(2, "A", 0, ""), Row(2, "B", 0, "") >>

\* Topic 2 of the model has no row; topic 1 lists class "B " before "A".
TableCustom ==
    << Row(1, "B ", 7, "chlorophyll"), Row(0, "A", 10, "cat, dog"),
       Row(1, "A", 3, "cell"), Row(0, "B ", 5, "cat, fish"),
       Row(0, "C", 1, "dog") >>

Fixtures ==
    { [model |-> ModelOutliers, tpc |-> TableOutliers],
      [model |-> ModelCustom, tpc |-> TableCustom],
      [model |-> ModelEmpty, tpc |-> <<>>] }

DenRow(c, d) == [Class |-> c, Denomenator |-> d]

\* denomenators_per_class: absent, complete, with a zero entry, lacking class B
DenomenatorTables ==
    { NoneVal,
      Some(<<DenRow("A", 50), DenRow("B", 20), DenRow("B ", 32), DenRow("C", 8)>>),
      Some(<<DenRow("A", 50), DenRow("B", 0), DenRow("B ", 0), DenRow("C", 8)>>),
      Some(<<DenRow("A", 50), DenRow("C", 8)>>) }

TopicIds == -1..2

TopicLists == {NoneVal} \cup {Some(l) : l \in SeqsUpTo(TopicIds, MaxListLen)}

TopNs == {NoneVal} \cup {Some(n) : n \in 0..MaxTopN}

Arguments ==
    [denomenators_per_class : DenomenatorTables,
     as_percentage : BOOLEAN,
     top_n_topics : TopNs,
     topics : TopicLists,
     normalize_frequency : BOOLEAN,
     custom_labels : BOOLEAN]

\* the defaults of the signature
DefaultArguments ==
    [denomenators_per_class |-> NoneVal,
     as_percentage |-> FALSE,
     top_n_topics |-> Some(10),
     topics |-> NoneVal,
     normalize_frequency |-> FALSE,
     custom_labels |-> FALSE]

NoLocals == [n \in {} |-> 0]

\* bind (or rebind) the names of `new` in the frame l
Bind(l, new) == new @@ l

Bound(name) == name \in DOMAIN locals

EmptyFig == [bars |-> <<>>, tables |-> <<>>, layout |-> <<>>, updatemenus |-> <<>>]

---------------------------------------------------------------------------
(* The state after construction: the caller holds a model and its table *)

Init ==
    \E fx \in Fixtures :
        /\ topic_model = fx.model
        /\ topics_per_class = fx.tpc
        /\ tpc_before = fx.tpc
        /\ args = DefaultArguments
        /\ pc = "idle"
        /\ locals = NoLocals
        /\ fig = EmptyFig
        /\ outcome = "none"
        /\ calls = 0

\* The caller calls visualize_topics_per_class(topic_model, topics_per_class, ...)
Call ==
    /\ pc = "idle"
    /\ calls < MaxCalls
    /\ \E a \in Arguments : args' = a
    /\ calls' = calls + 1
    /\ tpc_before' = topics_per_class
    /\ locals' = NoLocals
    /\ fig' = EmptyFig
    /\ outcome' = "none"
    /\ pc' = "select"
    /\ UNCHANGED <<topic_model, topics_per_class>>

---------------------------------------------------------------------------
(* Lines 66-74: select topics based on top_n and topics args *)

\* freq_df.loc[freq_df.Topic != -1, :].Topic.to_list()
RankedTopics(model) == SelectSeq(model.topic_freq, LAMBDA t : t # -1)

\* SelectTopics with the explicit list turned into a sorted set of ids
SelectTopicsDeduplicated(model, a) ==
    IF ~a.topics.none
    THEN sorted(Unique(a.topics.v))
    ELSE IF ~a.top_n_topics.none
         THEN sorted(Take(RankedTopics(model), a.top_n_topics.v))
         ELSE sorted(RankedTopics(model))

\* SelectTopics without the sorted() of line 72
SelectTopicsRankingOrder(model, a) ==
    IF ~a.topics.none THEN a.topics.v
    ELSE IF ~a.top_n_topics.none
         THEN Take(RankedTopics(model), a.top_n_topics.v)
         ELSE sorted(RankedTopics(model))

SelectTopics(model, a) ==
    IF ~a.topics.none THEN a.topics.v
    ELSE IF ~a.top_n_topics.none
         THEN sorted(Take(RankedTopics(model), a.top_n_topics.v))
         ELSE sorted(RankedTopics(model))

Select ==
    /\ pc = "select"
    /\ locals' = Bind(locals, [freq_df |-> RankedTopics(topic_model),
                               selected_topics |-> SelectTopics(topic_model, args)])
    /\ pc' = "prepare"
    /\ UNCHANGED <<topic_model, topics_per_class, args, fig, outcome, calls,
                   tpc_before>>

---------------------------------------------------------------------------
(* Lines 76-97: prepare data *)

\* value[:40] + "..." if len(value) > 40 else value
Truncate(value) == IF Len(value) > 40 THEN SubSeq(value, 1, 40) \o "..." ELSE value

TopicNames(model, a) ==
    IF ~model.custom_labels_.none /\ a.custom_labels
    THEN [key \in DOMAIN model.topic_labels_ |->
             PyIndex(model.custom_labels_.v, key + model.outliers)]
    ELSE [key \in DOMAIN model.topic_labels_ |-> Truncate(model.topic_labels_[key])]

\* Series.map(dict): a key the dict lacks maps to NaN
MapName(names, t) == IF t \in DOMAIN names THEN names[t] ELSE "nan"

\* topics_per_class["Name"] = topics_per_class.Topic.map(topic_names): the
\* assignment adds the column to (or overwrites it in) the caller's DataFrame
WithNameColumn(tpc, names) ==
    [k \in 1..Len(tpc) |-> [Name |-> MapName(names, tpc[k].Topic)] @@ tpc[k]]

Prepare ==
    /\ pc = "prepare"
    /\ LET names == TopicNames(topic_model, args)
           named == WithNameColumn(topics_per_class, names)
           sel   == Range(locals.selected_topics)
       IN /\ topics_per_class' = named
          /\ locals' = Bind(locals,
                 [topic_names |-> names,
                  data   |-> SelectSeq(named, LAMBDA r : r.Topic \in sel),
                  tables |-> <<>>,
                  iter   |-> 0])
    /\ fig' = EmptyFig
    /\ pc' = "loop"
    /\ UNCHANGED <<topic_model, args, outcome, calls, tpc_before>>


---------------------------------------------------------------------------
(* Lines 98-105: for _, topic in enumerate(selected_topics) *)

\* Visible with the test of line 99 lost
VisibleAlways(idx) == "True"

\* visible = True if _ == 0 else "legendonly"
Visible(idx) == IF idx = 0 THEN "True" ELSE "legendonly"

\* data.loc[data.Topic == topic, :]
TraceData(data, topic) == SelectSeq(data, LAMBDA r : r.Topic = topic)

Column(df, c) == [k \in 1..Len(df) |-> df[k][c]]

\* the next topic has rows: bind the loop variables of lines 98-105
ForTopic ==
    /\ pc = "loop"
    /\ locals.iter < Len(locals.selected_topics)
    /\ LET topic == locals.selected_topics[locals.iter + 1]
           td    == TraceData(locals.data, topic)
       IN /\ td # <<>>
          /\ locals' = Bind(locals,
                 [iter       |-> locals.iter + 1,
                  idx        |-> locals.iter,
                  topic      |-> topic,
                  visible    |-> Visible(locals.iter),
                  trace_data |-> td,
                  topic_name |-> td[1].Name,
                  words      |-> Column(td, "Words")])
    /\ pc' = "compute"
    /\ UNCHANGED <<topic_model, topics_per_class, args, fig, outcome, calls,
                   tpc_before>>

\* the next topic has no row: trace_data.Name.values[0] raises IndexError
ForTopicNoRows ==
    /\ pc = "loop"
    /\ locals.iter < Len(locals.selected_topics)
    /\ LET topic == locals.selected_topics[locals.iter + 1]
           td    == TraceData(locals.data, topic)
       IN /\ td = <<>>
          /\ locals' = Bind(locals,
                 [iter       |-> locals.iter + 1,
                  idx        |-> locals.iter,
                  topic      |-> topic,
                  visible    |-> Visible(locals.iter),
                  trace_data |-> td])
    /\ pc' = "raised"
    /\ outcome' = "IndexError"
    /\ UNCHANGED <<topic_model, topics_per_class, args, fig, calls, tpc_before>>

\* the list is exhausted
ForExit ==
    /\ pc = "loop"
    /\ locals.iter = Len(locals.selected_topics)
    /\ pc' = "tables"
    /\ UNCHANGED <<topic_model, topics_per_class, args, locals, fig, outcome,
                   calls, tpc_before>>

---------------------------------------------------------------------------
(* Lines 107-153: the values to plot *)

IntVal(n) == [kind |-> "int", n |-> n, d |-> 1]

\* numerator / denomenator on numpy scalars: a float, inf or nan when d = 0
DivVal(n, d) == [kind |-> "div", n |-> n, d |-> d]

\* sklearn.preprocessing.normalize(row)[0]: each entry over the L2 norm of the
\* row, a zero norm being replaced by 1.  d holds the square of the norm.
Normalize(freqs) ==
    LET sq == SeqSum([k \in 1..Len(freqs) |-> freqs[k] * freqs[k]])
    IN [k \in 1..Len(freqs) |->
           [kind |-> "l2", n |-> freqs[k], d |-> IF sq = 0 THEN 1 ELSE sq]]

TwoDigits(n) == IF n < 10 THEN "0" \o ToString(n) ELSE ToString(n)

\* f"{numerator / denomenator:.2%}": the quotient times 100, rounded to two
\* decimals (ties to even), then "%"
PercentStr(n, d) ==
    IF d = 0 THEN (IF n = 0 THEN "nan%" ELSE "inf%")
    ELSE LET q == (n * 10000) \div d
             r == (n * 10000) % d
             h == IF 2 * r > d \/ (2 * r = d /\ q % 2 = 1) THEN q + 1 ELSE q
         IN ToString(h \div 100) \o "." \o TwoDigits(h % 100) \o "%"

\* trace_data.loc[trace_data.Class == class_name, "Frequency"].values[0]
Numerator(trace_data, class_name) ==
    SelectSeq(trace_data, LAMBDA r : r.Class = class_name)[1].Frequency

\* denomenators_per_class.loc[... .Class == class_name, "Denomenator"]
DenomenatorRows(den, class_name) ==
    SelectSeq(den, LAMBDA r : r.Class = class_name)

\* FallbackDenomenator summing over the rows of every selected topic
FallbackDenomenatorAllTopics(data, trace_data) == SeqSum(Column(data, "Frequency"))

\* the fallback of line 128: trace_data.Frequency.sum()
FallbackDenomenator(data, trace_data) == SeqSum(Column(trace_data, "Frequency"))

\* lines 121-129
Denomenator(a, data, trace_data, class_name) ==
    IF ~a.denomenators_per_class.none
    THEN DenomenatorRows(a.denomenators_per_class.v, class_name)[1].Denomenator
    ELSE FallbackDenomenator(data, trace_data)

\* the first class (1-based) whose lookup in the denominator table finds no
\* row, 0 when there is none
FirstMissing(a, trace_data) ==
    LET miss == {k \in 1..Len(trace_data) :
                    /\ ~a.denomenators_per_class.none
                    /\ DenomenatorRows(a.denomenators_per_class.v,
                                       trace_data[k].Class) = <<>>}
    IN IF miss = {} THEN 0
       ELSE CHOOSE k \in miss : \A j \in miss : k <= j

\* what the first n iterations of the loop of lines 117-138 append
PercentLists(a, data, trace_data, n) ==
    LET num(k) == Numerator(trace_data, trace_data[k].Class)
        den(k) == Denomenator(a, data, trace_data, trace_data[k].Class)
        pct(k) == PercentStr(num(k), den(k))
    IN [x            |-> [k \in 1..n |-> DivVal(num(k), den(k))],
        numerators   |-> [k \in 1..n |-> num(k)],
        denomenators |-> [k \in 1..n |-> den(k)],
        percentages  |-> [k \in 1..n |-> pct(k)],
        debug_info   |-> [k \in 1..n |->
            "Equation: <em>" \o ToString(num(k)) \o " / " \o ToString(den(k))
            \o "</em> = <em>" \o pct(k) \o "</em>"]]

\* lines 107-109, executed before the test of as_percentage
AfterNormalize(l, a) ==
    IF a.normalize_frequency
    THEN Bind(l, [x |-> Normalize(Column(l.trace_data, "Frequency")),
                  xaxis_title |-> "Normalized Frequency"])
    ELSE l

\* lines 140-148
DebugTable(l, lists) ==
    [k \in 1..Len(l.trace_data) |->
        [Class       |-> strip(l.trace_data[k].Class),
         Numerator   |-> lists.numerators[k],
         Denomenator |-> lists.denomenators[k],
         Percentage  |-> lists.percentages[k],
         Topic       |-> l.topic_name]]

\* as_percentage and every class is found: lines 110-150.  The inner loop
\* rebinds `_`, which ends as the index of the last class.
ComputePercentage ==
    /\ pc = "compute"
    /\ args.as_percentage
    /\ FirstMissing(args, locals.trace_data) = 0
    /\ LET l     == AfterNormalize(locals, args)
           td    == l.trace_data
           n     == Len(td)
           lists == PercentLists(args, l.data, td, n)
           table == DebugTable(l, lists)
       IN locals' = Bind(l, lists @@
                 [idx         |-> n - 1,
                  class_name  |-> td[n].Class,
                  numerator   |-> lists.numerators[n],
                  denomenator |-> lists.denomenators[n],
                  percent_str |-> lists.percentages[n],
                  debug_table |-> table,
                  tables      |-> l.tables \o table,
                  xaxis_title |-> "Frequency (%)"])
    /\ pc' = "add_trace"
    /\ UNCHANGED <<topic_model, topics_per_class, args, fig, outcome, calls,
                   tpc_before>>

\* as_percentage and a class has no row in the denominator table: .values[0]
\* of line 125 raises IndexError in that iteration
ComputePercentageNoRow ==
    /\ pc = "compute"
    /\ args.as_percentage
    /\ FirstMissing(args, locals.trace_data) # 0
    /\ LET l     == AfterNormalize(locals, args)
           td    == l.trace_data
           m     == FirstMissing(args, td)
           lists == PercentLists(args, l.data, td, m - 1)
       IN locals' = Bind(l, lists @@
                 [idx         |-> m - 1,
                  class_name  |-> td[m].Class,
                  numerator   |-> Numerator(td, td[m].Class)])
    /\ pc' = "raised"
    /\ outcome' = "IndexError"
    /\ UNCHANGED <<topic_model, topics_per_class, args, fig, calls, tpc_before>>

\* not as_percentage: the else branch of lines 151-153 runs, also after the
\* normalize branch
ComputePlain ==
    /\ pc = "compute"
    /\ ~args.as_percentage
    /\ LET l == AfterNormalize(locals, args)
       IN locals' = Bind(l,
              [x |-> [k \in 1..Len(l.trace_data) |->
                         IntVal(l.trace_data[k].Frequency)],
               xaxis_title |-> "Frequency"])
    /\ pc' = "add_trace"
    /\ UNCHANGED <<topic_model, topics_per_class, args, fig, outcome, calls,
                   tpc_before>>


---------------------------------------------------------------------------
(* Lines 154-169: fig.add_trace(go.Bar(...)) *)

\* zip(words, debug_info) stops with the shorter list
HoverText(words, debug_info) ==
    LET n == IF Len(words) < Len(debug_info) THEN Len(words) ELSE Len(debug_info)
    IN [k \in 1..n |-> words[k] \o "<br>" \o debug_info[k]]

\* colors[_ % 7], with `_` as it is when line 159 is reached
MarkerColor(l) == colors[(l.idx % 7) + 1]

Bar(l) ==
    [y            |-> Column(l.trace_data, "Class"),
     x            |-> l.x,
     visible      |-> l.visible,
     marker_color |-> MarkerColor(l),
     hoverinfo    |-> "text",
     orientation  |-> "h",
     name         |-> l.topic_name,
     hovertext    |-> HoverText(l.words, l.debug_info)]

AddTrace ==
    /\ pc = "add_trace"
    /\ Bound("debug_info")
    /\ fig' = [fig EXCEPT !.bars = Append(@, Bar(locals))]
    /\ pc' = "loop"
    /\ UNCHANGED <<topic_model, topics_per_class, args, locals, outcome, calls,
                   tpc_before>>

\* debug_info is assigned only under as_percentage: reading it at line 166
\* raises UnboundLocalError before the trace is built
AddTraceUnbound ==
    /\ pc = "add_trace"
    /\ ~Bound("debug_info")
    /\ pc' = "raised"
    /\ outcome' = "UnboundLocalError"
    /\ UNCHANGED <<topic_model, topics_per_class, args, locals, fig, calls,
                   tpc_before>>

---------------------------------------------------------------------------
(* Lines 171-194: the table panels *)

TableColumns == <<"Class", "Numerator", "Denomenator", "Percentage", "Topic">>

DenomenatorColumns == <<"Class", "Denomenator">>

\* df.columns.tolist(): an empty DataFrame() has no column
Header(df, columns) == IF df = <<>> THEN <<>> ELSE columns

\* df.to_numpy().T.tolist(): one list per column
Cells(df, columns) ==
    IF df = <<>> THEN <<>> ELSE [c \in 1..Len(columns) |-> Column(df, columns[c])]

CombinedTable(l) ==
    [header |-> Header(l.tables, TableColumns),
     name   |-> l.topic_name,
     cells  |-> Cells(l.tables, TableColumns)]

DenomenatorTable(den) ==
    [header |-> Header(den, DenomenatorColumns),
     name   |-> "",
     cells  |-> Cells(den, DenomenatorColumns)]

AppendTables ==
    /\ pc = "tables"
    /\ Bound("topic_name")
    /\ fig' = [fig EXCEPT !.tables =
                 IF args.denomenators_per_class.none
                 THEN <<CombinedTable(locals)>>
                 ELSE <<CombinedTable(locals),
                        DenomenatorTable(args.denomenators_per_class.v)>>]
    /\ pc' = "layout"
    /\ UNCHANGED <<topic_model, topics_per_class, args, locals, outcome, calls,
                   tpc_before>>

\* the loop body never ran: name=topic_name at line 174 raises UnboundLocalError
AppendTablesUnbound ==
    /\ pc = "tables"
    /\ ~Bound("topic_name")
    /\ pc' = "raised"
    /\ outcome' = "UnboundLocalError"
    /\ UNCHANGED <<topic_model, topics_per_class, args, locals, fig, calls,
                   tpc_before>>

---------------------------------------------------------------------------
(* Lines 198-251: styling, the dropdown, return *)

Buttons(tables) ==
    LET labels == <<"All">> \o Unique(Column(tables, "Topic"))
    IN [b \in 1..Len(labels) |->
           [label  |-> labels[b],
            method |-> "update",
            cells  |-> IF labels[b] = "All"
                       THEN Cells(tables, TableColumns)
                       ELSE Cells(SelectSeq(tables, LAMBDA r : r.Topic = labels[b]),
                                  TableColumns)]]

Layout(l, a) ==
    [xaxis_title |-> l.xaxis_title,
     yaxis_title |-> "Class",
     title       |-> "<b>Topics per Class - v2</b>",
     tickformat  |-> IF a.as_percentage THEN ".0%" ELSE ""]

\* tables["Topic"] of line 241 raises KeyError on a DataFrame without columns
Finish ==
    /\ pc = "layout"
    /\ IF locals.tables = <<>>
       THEN /\ fig' = [fig EXCEPT !.layout = Layout(locals, args)]
            /\ pc' = "raised"
            /\ outcome' = "KeyError"
       ELSE /\ fig' = [fig EXCEPT !.layout = Layout(locals, args),
                                  !.updatemenus = Buttons(locals.tables)]
            /\ pc' = "done"
            /\ outcome' = "figure"
    /\ UNCHANGED <<topic_model, topics_per_class, args, locals, calls,
                   tpc_before>>

\* control is back in the caller, which keeps its model and its table
Return ==
    /\ pc \in {"done", "raised"}
    /\ pc' = "idle"
    /\ args' = DefaultArguments
    /\ locals' = NoLocals
    /\ fig' = EmptyFig
    /\ outcome' = "none"
    /\ UNCHANGED <<topic_model, topics_per_class, calls, tpc_before>>

Next ==
    \/ Call
    \/ Select
    \/ Prepare
    \/ ForTopic
    \/ ForTopicNoRows
    \/ ForExit
    \/ ComputePercentage
    \/ ComputePercentageNoRow
    \/ ComputePlain
    \/ AddTrace
    \/ AddTraceUnbound
    \/ AppendTables
    \/ AppendTablesUnbound
    \/ Finish
    \/ Return

Spec == Init /\ [][Next]_vars


---------------------------------------------------------------------------
(* Vocabulary of the properties *)

Finished == pc \in {"done", "raised"}

\* the call returned its figure
Returned == pc = "done"

RawMode == ~args.as_percentage /\ ~args.normalize_frequency

NormalizedMode == args.normalize_frequency /\ ~args.as_percentage

\* the rows the caller's table holds for topic t, in table order
RowsOf(t) == SelectSeq(tpc_before, LAMBDA r : r.Topic = t)

\* the topic a bar trace shows, read off its name (labels are distinct)
TraceTopic(bar) ==
    CHOOSE t \in DOMAIN locals.topic_names : locals.topic_names[t] = bar.name

TraceTopics == [i \in 1..Len(fig.bars) |-> TraceTopic(fig.bars[i])]

Occurrences(s, e) == Cardinality({k \in 1..Len(s) : s[k] = e})

\* the first N ids of the outlier-excluded ranking, all of them without N
TopRanked ==
    LET ranked == SelectSeq(topic_model.topic_freq, LAMBDA t : t # -1)
    IN IF args.top_n_topics.none THEN Range(ranked)
       ELSE {ranked[k] : k \in 1..Len(ranked) \cap 1..args.top_n_topics.v}

\* every topic of the selection has a row, and there is one
SelectionHasRows ==
    /\ Bound("selected_topics")
    /\ locals.selected_topics # <<>>
    /\ \A t \in Range(locals.selected_topics) : RowsOf(t) # <<>>

---------------------------------------------------------------------------
(* C1 *)

\* C1 as claimed: a returned figure has one bar trace per selected topic and
\* no topic is shown by two traces, also when the explicit list repeats an id.
C1_NoTopicTwice ==
    Returned =>
        /\ Len(fig.bars) = Cardinality(Range(locals.selected_topics))
        /\ \A i, j \in 1..Len(fig.bars) :
               i # j => fig.bars[i].name # fig.bars[j].name

\* C1 as amended: a returned figure has one bar trace per entry of the
\* selection.  With an explicit list each id is shown by as many traces as the
\* list holds it; without one each of the first N ranked non-outlier topics
\* is shown by exactly one trace and no other topic by any.  Each trace shows
\* the classes of its own topic.
C1_OneTracePerEntry ==
    Returned =>
        /\ \A t \in TopicIds :
               Occurrences(TraceTopics, t) =
                   IF ~args.topics.none THEN Occurrences(args.topics.v, t)
                   ELSE IF t \in TopRanked THEN 1 ELSE 0
        /\ \A i \in 1..Len(fig.bars) :
               fig.bars[i].y = Column(RowsOf(TraceTopics[i]), "Class")

\* a figure was returned for an explicit list that repeats a topic id
C1_Witness ==
    /\ Returned
    /\ ~args.topics.none
    /\ Len(args.topics.v) = 2
    /\ args.topics.v[1] = args.topics.v[2]
    /\ Len(fig.bars) = 2

---------------------------------------------------------------------------
(* C2 *)

\* C2: in raw mode, with a selection whose topics all have rows, the call
\* returns a figure whose traces plot the Frequency column verbatim with an
\* empty hover explanation.
C2_RawPlotsFrequency ==
    (Finished /\ RawMode /\ SelectionHasRows) =>
        /\ outcome = "figure"
        /\ Len(fig.bars) = Len(locals.selected_topics)
        /\ \A i \in 1..Len(fig.bars) :
               LET rows == RowsOf(locals.selected_topics[i])
               IN /\ fig.bars[i].x =
                         [k \in 1..Len(rows) |->
                             [kind |-> "int", n |-> rows[k].Frequency, d |-> 1]]
                  /\ fig.bars[i].hovertext =
                         [k \in 1..Len(rows) |-> rows[k].Words \o "<br>"]

---------------------------------------------------------------------------
(* C3 *)

\* C3: in normalized mode the values handed to the bar trace of a topic with
\* a nonzero frequency are its frequencies over their L2 norm, the x-axis
\* title is "Normalized Frequency", and the call returns its figure.
C3_NormalizedPlotsUnitVector ==
    /\ (pc = "add_trace" /\ NormalizedMode) =>
           LET freqs == Column(locals.trace_data, "Frequency")
               sq    == SeqSum([k \in 1..Len(freqs) |-> freqs[k] * freqs[k]])
           IN sq # 0 =>
                  /\ locals.x = [k \in 1..Len(freqs) |->
                                    [kind |-> "l2", n |-> freqs[k], d |-> sq]]
                  /\ locals.xaxis_title = "Normalized Frequency"
    /\ (Finished /\ NormalizedMode /\ SelectionHasRows) =>
           /\ outcome = "figure"
           /\ fig.layout.xaxis_title = "Normalized Frequency"

---------------------------------------------------------------------------
(* C4 *)

\* the denominator table's value for class c
TableValue(den, c) == (CHOOSE r \in Range(den) : r.Class = c).Denomenator

PercentExamples ==
    { <<10, 50, "20.00%">>, <<10, 15, "66.67%">>, <<5, 15, "33.33%">>,
      <<3, 10, "30.00%">>, <<7, 10, "70.00%">>, <<1, 8, "12.50%">>,
      <<5, 32, "15.62%">>, <<7, 32, "21.88%">> }

\* C4: in percentage mode every plotted value of a returned figure is the
\* row's Frequency over the denominator table's value for the row's class
\* or, without a table, over the sum of the Frequency of that topic's rows;
\* and the percentage strings of the combined table are the quotients as
\* percentages with two decimals.
C4_PercentageValues ==
    (Returned /\ args.as_percentage) =>
        /\ \A i \in 1..Len(fig.bars) :
               LET rows == RowsOf(TraceTopics[i])
                   sum  == SeqSum([k \in 1..Len(rows) |-> rows[k].Frequency])
               IN /\ Len(fig.bars[i].x) = Len(rows)
                  /\ \A k \in 1..Len(rows) :
                         fig.bars[i].x[k] =
                             [kind |-> "div",
                              n |-> rows[k].Frequency,
                              d |-> IF args.denomenators_per_class.none THEN sum
                                    ELSE TableValue(args.denomenators_per_class.v,
                                                    rows[k].Class)]
        /\ LET cells == fig.tables[1].cells
           IN \A k \in 1..Len(cells[1]) : \A e \in PercentExamples :
                  (cells[2][k] = e[1] /\ cells[3][k] = e[2]) => cells[4][k] = e[3]

\* the example of the specification: no table, topic 0 with A=10, B=5 and
\* topic 1 with A=3, B=7
C4_Witness ==
    /\ Returned
    /\ args.as_percentage
    /\ args.denomenators_per_class.none
    /\ Len(fig.bars) = 2
    /\ fig.bars[1].x = <<[kind |-> "div", n |-> 10, d |-> 15],
                         [kind |-> "div", n |-> 5, d |-> 15]>>
    /\ fig.bars[2].x = <<[kind |-> "div", n |-> 3, d |-> 10],
                         [kind |-> "div", n |-> 7, d |-> 10]>>
    /\ fig.tables[1].cells[4] = <<"66.67%", "33.33%", "30.00%", "70.00%">>

---------------------------------------------------------------------------
(* C5 *)

\* C5: when no selected topic has a row in the frequency table (an empty
\* selection included), the call returns a figure without bar trace and with
\* an empty combined table.
C5_EmptySelectionReturnsFigure ==
    (/\ Finished
     /\ \A t \in Range(locals.selected_topics) : RowsOf(t) = <<>>) =>
        /\ outcome = "figure"
        /\ fig.bars = <<>>
        /\ Len(fig.tables) >= 1
        /\ fig.tables[1].cells = <<>>

---------------------------------------------------------------------------
(* C6 *)

DividesByZero(x) == \E k \in 1..Len(x) : x[k].kind = "div" /\ x[k].d = 0

\* C6: a division by a denominator of 0 raises where it is made: the call
\* never holds a plotted value computed by dividing by 0, and never returns a
\* figure with such a value in a trace.
C6_ZeroDenominatorRaises ==
    /\ Bound("x") => ~DividesByZero(locals.x)
    /\ Returned => \A i \in 1..Len(fig.bars) : ~DividesByZero(fig.bars[i].x)

---------------------------------------------------------------------------
(* C7 *)

\* C7: of the bar traces added so far the first is visible and every other
\* one is "legendonly", in every state of every call.
C7_OnlyFirstTraceVisible ==
    \A i \in 1..Len(fig.bars) :
        fig.bars[i].visible = IF i = 1 THEN "True" ELSE "legendonly"

\* a figure with several traces was returned
C7_Witness == Returned /\ Len(fig.bars) >= 2 /\ fig.bars[2].visible = "legendonly"

---------------------------------------------------------------------------
(* C8 *)

\* C8: when a call ends, by return or by exception, the caller's
\* topics_per_class table has the columns and the values it was passed with.
C8_TableUntouched == Finished => topics_per_class = tpc_before

---------------------------------------------------------------------------
(* C9 *)

\* C9: the bar trace at selection index i (from 0) has the colour
\* palette[i mod 7].
C9_ColorBySelectionIndex ==
    \A i \in 1..Len(fig.bars) :
        fig.bars[i].marker_color = colors[((i - 1) % 7) + 1]

---------------------------------------------------------------------------
(* C10 *)

\* C10 as claimed: the traces of a returned figure are in ascending order of
\* topic id in every selection mode, an explicit list being sorted.
C10_TracesAscending ==
    Returned =>
        \A i, j \in 1..Len(fig.bars) :
            i < j => TraceTopics[i] <= TraceTopics[j]

\* C10 as amended: an explicit list overrides top_n_topics and its ids are
\* used in the order given; without one the traces are in strictly ascending
\* order of topic id.  The rows of the combined table follow the traces.
C10_ExplicitOrderElseAscending ==
    Returned =>
        /\ IF ~args.topics.none THEN TraceTopics = args.topics.v
           ELSE \A i, j \in 1..Len(fig.bars) :
                    i < j => TraceTopics[i] < TraceTopics[j]
        /\ Unique(fig.tables[1].cells[5]) =
               Unique([i \in 1..Len(fig.bars) |-> fig.bars[i].name])

\* a figure was returned for an explicit list given in descending order
C10_Witness ==
    /\ Returned
    /\ ~args.topics.none
    /\ Len(args.topics.v) = 2
    /\ args.topics.v[1] > args.topics.v[2]
    /\ Len(fig.bars) = 2


===========================================================================
